---- MODULE Spec2Model ----
(***************************************************************************)
(* Model of src/model.py: create_model and its helpers create_fasterrcnn,  *)
(* set_anchor, create_retinanet and create_ssd300.                         *)
(*                                                                         *)
(* A detection model is a record of the configuration fields the code      *)
(* reads or writes.  Thresholds are kept in hundredths (0.7 is 70) and     *)
(* aspect ratios in tenths (0.5 is 5), so that every float of the code is  *)
(* an exact integer here.  One call of create_model is one behaviour: pc   *)
(* walks through the statements of the call.                               *)
(***************************************************************************)
EXTENDS Integers, Sequences, FiniteSets

VARIABLES args, n_classes, n_authors, pc, model, tuple_sizes_list,
          tuple_aspect_ratios_list, outcome, exit_status, returned

vars == <<args, n_classes, n_authors, pc, model, tuple_sizes_list,
          tuple_aspect_ratios_list, outcome, exit_status, returned>>

(* ------------------------------ bounds -------------------------------- *)

MaxClasses == 2

MaxAuthors == 2

(* ------------------------ literals of the code ------------------------ *)

\* len(tuple_sizes_list) != 5
RequiredSizes == 5

\* range(5) in the aspect_ratios of the new AnchorGenerator
AnchorLevels == 5

\* RPNHead(256, ...)
FpnChannels == 256

\* torch.nn.Conv2d(256, ...)
RetinaChannels == 256

(* ------------------------------ inputs -------------------------------- *)

Models == {"fasterrcnn", "retinanet", "ssd", "yolo"}

Backbones == {"resnet50", "resnet50v2", "mobilenet", "vgg16"}

ThreshValues == {30, 70}

DetValues == {100, 300}

\* every choice of the anchor flags, the thresholds at one fixed setting
FlagArgs ==
  [model : Models, backbone : Backbones,
   add_authors : BOOLEAN, custom_anchors : BOOLEAN,
   size8 : BOOLEAN, size16 : BOOLEAN, size32 : BOOLEAN, size64 : BOOLEAN,
   size128 : BOOLEAN, size256 : BOOLEAN, size512 : BOOLEAN,
   ar05 : BOOLEAN, ar1 : BOOLEAN, ar2 : BOOLEAN,
   box_nms_threshold : {30}, box_score_threshold : {70},
   box_bg_iou_threshold : {30}, box_fg_iou_threshold : {70},
   box_detections_per_img : {100},
   rpn_nms_threshold : {70}, rpn_score_threshold : {30},
   rpn_fg_iou_threshold : {70}, rpn_bg_iou_threshold : {30}]

\* every choice of the thresholds, the anchor flags at one fixed setting
ThreshArgs ==
  [model : Models, backbone : Backbones,
   add_authors : BOOLEAN, custom_anchors : BOOLEAN,
   size8 : {FALSE}, size16 : {TRUE}, size32 : {TRUE}, size64 : {TRUE},
   size128 : {TRUE}, size256 : {TRUE}, size512 : {FALSE},
   ar05 : {TRUE}, ar1 : {TRUE}, ar2 : {FALSE},
   box_nms_threshold : ThreshValues, box_score_threshold : ThreshValues,
   box_bg_iou_threshold : ThreshValues, box_fg_iou_threshold : ThreshValues,
   box_detections_per_img : DetValues,
   rpn_nms_threshold : ThreshValues, rpn_score_threshold : ThreshValues,
   rpn_fg_iou_threshold : ThreshValues, rpn_bg_iou_threshold : ThreshValues]

\* the architecture choices alone, flags and thresholds at fixed settings
CountArgs ==
  [model : Models, backbone : Backbones,
   add_authors : BOOLEAN, custom_anchors : BOOLEAN,
   size8 : {FALSE}, size16 : {TRUE}, size32 : {TRUE}, size64 : {TRUE},
   size128 : {TRUE}, size256 : {TRUE}, size512 : {FALSE},
   ar05 : {TRUE}, ar1 : {TRUE}, ar2 : {FALSE},
   box_nms_threshold : {30}, box_score_threshold : {70},
   box_bg_iou_threshold : {30}, box_fg_iou_threshold : {70},
   box_detections_per_img : {100},
   rpn_nms_threshold : {70}, rpn_score_threshold : {30},
   rpn_fg_iou_threshold : {70}, rpn_bg_iou_threshold : {30}]

\* <<args, n_classes, n_authors>> of one call of create_model
Inputs ==
  ((FlagArgs \cup ThreshArgs) \X {MaxClasses} \X {1})
    \cup (CountArgs \X (1..MaxClasses) \X (1..MaxAuthors))

(* ------------------------- library constructors ----------------------- *)

Min(a, b) == IF a <= b THEN a ELSE b

AnchorGenerator(sizes, aspect_ratios) ==
  [sizes |-> sizes, aspect_ratios |-> aspect_ratios]

\* [len(s) * len(a) for s, a in zip(sizes, aspect_ratios)]
num_anchors_per_location(ag) ==
  [i \in 1..Min(Len(ag.sizes), Len(ag.aspect_ratios)) |->
     Len(ag.sizes[i]) * Len(ag.aspect_ratios[i])]

RPNHead(in_channels, num_anchors) ==
  [in_channels |-> in_channels, num_anchors |-> num_anchors]

FastRCNNPredictor(in_features, num_classes) ==
  [type |-> "FastRCNNPredictor", in_features |-> in_features,
   num_classes |-> num_classes]

FastRCNNPredictorWithAuthor(in_features, num_classes, num_authors) ==
  [type |-> "FastRCNNPredictorWithAuthor", in_features |-> in_features,
   num_classes |-> num_classes, num_authors |-> num_authors]

\* RoI heads with an author branch, built from the parts of the default
\* RoI heads and the box thresholds, in the parameter order of the call
CustomRoIHeads(box_roi_pool, box_head, box_predictor, fg_iou_thresh, bg_iou_thresh, batch_size_per_image, positive_fraction, bbox_reg_weights, score_thresh, nms_thresh, detections_per_img) ==
  [type |-> "CustomRoIHeads",
   box_roi_pool |-> box_roi_pool, box_head |-> box_head,
   box_predictor |-> box_predictor,
   proposal_matcher |-> [low_threshold |-> bg_iou_thresh,
                         high_threshold |-> fg_iou_thresh],
   fg_bg_sampler |-> [batch_size_per_image |-> batch_size_per_image,
                      positive_fraction |-> positive_fraction],
   box_coder |-> [weights |-> bbox_reg_weights],
   score_thresh |-> score_thresh, nms_thresh |-> nms_thresh,
   detections_per_img |-> detections_per_img]

SSDClassificationHead(in_channels, num_anchors, num_classes) ==
  [num_columns |-> num_classes,
   module_list |->
     [i \in 1..Min(Len(in_channels), Len(num_anchors)) |->
        [in_channels |-> in_channels[i],
         out_channels |-> num_classes * num_anchors[i]]]]

\* DefaultBoxGenerator.num_anchors_per_location()
DefaultBoxAnchors(ag) ==
  [i \in 1..Len(ag.aspect_ratios) |-> 2 + 2 * Len(ag.aspect_ratios[i])]

Conv2d(in_channels, out_channels) ==
  [in_channels |-> in_channels, out_channels |-> out_channels]

(* ----------------------- models the library builds -------------------- *)

Unbound == [kind |-> "unbound"]

Nothing == [kind |-> "nothing"]

\* fasterrcnn_resnet50_fpn, fasterrcnn_resnet50_fpn_v2,
\* fasterrcnn_mobilenet_v3_large_fpn
LibFasterRCNN(backbone) ==
  LET mobile == backbone = "mobilenet"
      ratios == <<5, 10, 20>>
      ag == IF mobile
            THEN AnchorGenerator([i \in 1..3 |-> <<32, 64, 128, 256, 512>>],
                                 [i \in 1..3 |-> ratios])
            ELSE AnchorGenerator(<<<<32>>, <<64>>, <<128>>, <<256>>, <<512>>>>,
                                 [i \in 1..5 |-> ratios])
  IN [kind |-> "FasterRCNN", backbone |-> backbone,
      roi_heads |->
        [type |-> "RoIHeads",
         box_roi_pool |-> "MultiScaleRoIAlign",
         box_head |-> IF backbone = "resnet50v2" THEN "FastRCNNConvFCHead"
                                                 ELSE "TwoMLPHead",
         box_predictor |-> FastRCNNPredictor(1024, 91),
         proposal_matcher |-> [low_threshold |-> 50, high_threshold |-> 50],
         fg_bg_sampler |-> [batch_size_per_image |-> 512,
                            positive_fraction |-> 25],
         box_coder |-> [weights |-> <<10, 10, 5, 5>>],
         score_thresh |-> 5, nms_thresh |-> 50, detections_per_img |-> 100],
      rpn |->
        [nms_thresh |-> 70, score_thresh |-> IF mobile THEN 5 ELSE 0,
         proposal_matcher |-> [low_threshold |-> 30, high_threshold |-> 70],
         anchor_generator |-> ag,
         head |-> RPNHead(256, num_anchors_per_location(ag)[1])]]

\* retinanet_resnet50_fpn_v2
LibRetinaNet ==
  [kind |-> "RetinaNet",
   head |-> [classification_head |->
               [num_anchors |-> 9, num_classes |-> 91,
                cls_logits |-> Conv2d(256, 9 * 91)],
             regression_head |->
               [bbox_reg |-> Conv2d(256, 9 * 4)]],
   anchor_generator |->
     AnchorGenerator(<<<<32, 40, 50>>, <<64, 80, 101>>, <<128, 161, 203>>,
                       <<256, 322, 406>>, <<512, 645, 812>>>>,
                     [i \in 1..5 |-> <<5, 10, 20>>]),
   proposal_matcher |-> [low_threshold |-> 40, high_threshold |-> 50],
   score_thresh |-> 5, nms_thresh |-> 50, detections_per_img |-> 300,
   topk_candidates |-> 1000]

\* ssd300_vgg16
LibSSD ==
  LET channels == <<512, 1024, 512, 256, 256, 256>>
      ratios == <<<<2>>, <<2, 3>>, <<2, 3>>, <<2, 3>>, <<2>>, <<2>>>>
      anchors == DefaultBoxAnchors([aspect_ratios |-> ratios])
  IN [kind |-> "SSD",
      head |-> [classification_head |->
                  SSDClassificationHead(channels, anchors, 91),
                regression_head |->
                  [module_list |->
                     [i \in 1..6 |-> Conv2d(channels[i], 4 * anchors[i])]]],
      anchor_generator |-> [aspect_ratios |-> ratios],
      proposal_matcher |-> [iou_threshold |-> 50],
      score_thresh |-> 1, nms_thresh |-> 45, detections_per_img |-> 200,
      topk_candidates |-> 400]

(* ------------------------------ set_anchor ---------------------------- *)

\* TupleSizes with the size64 branch appending (128,)
TupleSizesCopyPaste(a) ==
  (IF a.size8 THEN <<<<8>>>> ELSE <<>>) \o
  (IF a.size16 THEN <<<<16>>>> ELSE <<>>) \o
  (IF a.size32 THEN <<<<32>>>> ELSE <<>>) \o
  (IF a.size64 THEN <<<<128>>>> ELSE <<>>) \o
  (IF a.size128 THEN <<<<128>>>> ELSE <<>>) \o
  (IF a.size256 THEN <<<<256>>>> ELSE <<>>) \o
  (IF a.size512 THEN <<<<512>>>> ELSE <<>>)

\* tuple_sizes_list after the seven size flags have been read
TupleSizes(a) ==
  (IF a.size8 THEN <<<<8>>>> ELSE <<>>) \o
  (IF a.size16 THEN <<<<16>>>> ELSE <<>>) \o
  (IF a.size32 THEN <<<<32>>>> ELSE <<>>) \o
  (IF a.size64 THEN <<<<64>>>> ELSE <<>>) \o
  (IF a.size128 THEN <<<<128>>>> ELSE <<>>) \o
  (IF a.size256 THEN <<<<256>>>> ELSE <<>>) \o
  (IF a.size512 THEN <<<<512>>>> ELSE <<>>)

\* tuple_aspect_ratios_list after the three ratio flags have been read
TupleAspectRatios(a) ==
  (IF a.ar05 THEN <<5>> ELSE <<>>) \o
  (IF a.ar1 THEN <<10>> ELSE <<>>) \o
  (IF a.ar2 THEN <<20>> ELSE <<>>)

\* WrongNumberOfSizes testing len(tuple_sizes_list) < 5
TooFewSizes(sizes_list) == Len(sizes_list) < RequiredSizes

\* if len(tuple_sizes_list) != 5
WrongNumberOfSizes(sizes_list) == Len(sizes_list) # RequiredSizes

\* InstallAnchors without the assignment of model.rpn.head
InstallAnchorsKeepHead(m, sizes_list, ratios_list) ==
  [m EXCEPT
     !.rpn.anchor_generator =
       AnchorGenerator(sizes_list, [i \in 1..AnchorLevels |-> ratios_list])]

\* the model after the new anchor generator and RPN head are installed
InstallAnchors(m, sizes_list, ratios_list) ==
  LET sizes == sizes_list
      anchor_generator ==
        AnchorGenerator(sizes, [i \in 1..AnchorLevels |-> ratios_list])
  IN [m EXCEPT
        !.rpn.anchor_generator = anchor_generator,
        !.rpn.head =
          RPNHead(FpnChannels, num_anchors_per_location(anchor_generator)[1])]

(* --------------------------- create_fasterrcnn ------------------------ *)

\* SelectBackbone with a plain else as its last branch
SelectBackboneElse(a) ==
  IF a.backbone = "resnet50" THEN LibFasterRCNN("resnet50")
  ELSE IF a.backbone = "resnet50v2" THEN LibFasterRCNN("resnet50v2")
  ELSE LibFasterRCNN("mobilenet")

\* the model built for args.backbone, or no binding of the name at all
SelectBackbone(a) ==
  IF a.backbone = "resnet50" THEN LibFasterRCNN("resnet50")
  ELSE IF a.backbone = "resnet50v2" THEN LibFasterRCNN("resnet50v2")
  ELSE IF a.backbone = "mobilenet" THEN LibFasterRCNN("mobilenet")
  ELSE Unbound

\* ReplaceRoIHeads with the two matcher thresholds exchanged
ReplaceRoIHeadsSwapped(m, nc, na, a) ==
  LET rh == m.roi_heads
      in_features == rh.box_predictor.in_features
  IN IF a.add_authors
     THEN [CustomRoIHeads(rh.box_roi_pool, rh.box_head, rh.box_predictor,
                          a.box_fg_iou_threshold, a.box_bg_iou_threshold,
                          rh.fg_bg_sampler.batch_size_per_image,
                          rh.fg_bg_sampler.positive_fraction,
                          rh.box_coder.weights, a.box_score_threshold,
                          a.box_nms_threshold, a.box_detections_per_img)
             EXCEPT !.box_predictor =
                      FastRCNNPredictorWithAuthor(in_features, nc, na)]
     ELSE [rh EXCEPT
             !.box_predictor = FastRCNNPredictor(in_features, nc),
             !.nms_thresh = a.box_nms_threshold,
             !.score_thresh = a.box_score_threshold,
             !.proposal_matcher.low_threshold = a.box_fg_iou_threshold,
             !.proposal_matcher.high_threshold = a.box_bg_iou_threshold,
             !.detections_per_img = a.box_detections_per_img]

\* ReplaceRoIHeads building the author predictor in the else branch too
ReplaceRoIHeadsAuthorAlways(m, nc, na, a) ==
  LET rh == m.roi_heads
      in_features == rh.box_predictor.in_features
  IN IF a.add_authors
     THEN [CustomRoIHeads(rh.box_roi_pool, rh.box_head, rh.box_predictor,
                          a.box_fg_iou_threshold, a.box_bg_iou_threshold,
                          rh.fg_bg_sampler.batch_size_per_image,
                          rh.fg_bg_sampler.positive_fraction,
                          rh.box_coder.weights, a.box_score_threshold,
                          a.box_nms_threshold, a.box_detections_per_img)
             EXCEPT !.box_predictor =
                      FastRCNNPredictorWithAuthor(in_features, nc, na)]
     ELSE [rh EXCEPT
             !.box_predictor =
               FastRCNNPredictorWithAuthor(in_features, nc, na),
             !.nms_thresh = a.box_nms_threshold,
             !.score_thresh = a.box_score_threshold,
             !.proposal_matcher.low_threshold = a.box_bg_iou_threshold,
             !.proposal_matcher.high_threshold = a.box_fg_iou_threshold,
             !.detections_per_img = a.box_detections_per_img]

\* model.roi_heads after the branch on args.add_authors
ReplaceRoIHeads(m, nc, na, a) ==
  LET rh == m.roi_heads
      in_features == rh.box_predictor.in_features
  IN IF a.add_authors
     THEN [CustomRoIHeads(rh.box_roi_pool, rh.box_head, rh.box_predictor,
                          a.box_fg_iou_threshold, a.box_bg_iou_threshold,
                          rh.fg_bg_sampler.batch_size_per_image,
                          rh.fg_bg_sampler.positive_fraction,
                          rh.box_coder.weights, a.box_score_threshold,
                          a.box_nms_threshold, a.box_detections_per_img)
             EXCEPT !.box_predictor =
                      FastRCNNPredictorWithAuthor(in_features, nc, na)]
     ELSE [rh EXCEPT
             !.box_predictor = FastRCNNPredictor(in_features, nc),
             !.nms_thresh = a.box_nms_threshold,
             !.score_thresh = a.box_score_threshold,
             !.proposal_matcher.low_threshold = a.box_bg_iou_threshold,
             !.proposal_matcher.high_threshold = a.box_fg_iou_threshold,
             !.detections_per_img = a.box_detections_per_img]

\* model.rpn after the four RPN threshold assignments
SetRpnThresholds(rpn, a) ==
  [rpn EXCEPT
     !.nms_thresh = a.rpn_nms_threshold,
     !.proposal_matcher.low_threshold = a.rpn_fg_iou_threshold,
     !.proposal_matcher.high_threshold = a.rpn_bg_iou_threshold,
     !.score_thresh = a.rpn_score_threshold]

(* ---------------------- create_retinanet, create_ssd300 --------------- *)

\* create_retinanet that also copies the box score threshold
create_retinanet_with_threshold(nc, a) ==
  LET m == LibRetinaNet
      num_anchors == m.head.classification_head.num_anchors
      cls_logits == Conv2d(RetinaChannels, num_anchors * nc)
  IN [m EXCEPT !.head.classification_head.num_classes = nc,
               !.head.classification_head.cls_logits = cls_logits,
               !.score_thresh = a.box_score_threshold]

create_retinanet(nc, a) ==
  LET m == LibRetinaNet
      num_anchors == m.head.classification_head.num_anchors
      cls_logits == Conv2d(RetinaChannels, num_anchors * nc)
  IN [m EXCEPT !.head.classification_head.num_classes = nc,
               !.head.classification_head.cls_logits = cls_logits]

\* create_ssd300 that returns the library model with its own head
create_ssd300_keep_head(nc, a) == LibSSD

create_ssd300(nc, a) ==
  LET m == LibSSD
      num_anchors == DefaultBoxAnchors(m.anchor_generator)
      layers == m.head.classification_head.module_list
      in_channels == [i \in 1..Len(layers) |-> layers[i].in_channels]
  IN [m EXCEPT !.head.classification_head =
                 SSDClassificationHead(in_channels, num_anchors, nc)]

(* ------------------------------- state -------------------------------- *)

Init ==
  /\ \E in \in Inputs :
       /\ args = in[1]
       /\ n_classes = in[2]
       /\ n_authors = in[3]
  /\ pc = "create_model"
  /\ model = Unbound
  /\ tuple_sizes_list = <<>>
  /\ tuple_aspect_ratios_list = <<>>
  /\ outcome = "running"
  /\ exit_status = <<>>
  /\ returned = Nothing

\* if args.model == "fasterrcnn": the chain on args.backbone
BuildFasterRCNN ==
  /\ pc = "create_model"
  /\ args.model = "fasterrcnn"
  /\ model' = SelectBackbone(args)
  /\ pc' = "call_create_fasterrcnn"
  /\ UNCHANGED <<args, n_classes, n_authors, tuple_sizes_list,
                 tuple_aspect_ratios_list, outcome, exit_status, returned>>

\* model = create_fasterrcnn(n_classes, n_authors, model, args): the read of
\* the argument model
CallCreateFasterRCNN ==
  /\ pc = "call_create_fasterrcnn"
  /\ IF model.kind = "unbound"
     THEN /\ pc' = "done"
          /\ outcome' = "UnboundLocalError"
     ELSE /\ pc' = "roi_heads"
          /\ outcome' = outcome
  /\ UNCHANGED <<args, n_classes, n_authors, model, tuple_sizes_list,
                 tuple_aspect_ratios_list, exit_status, returned>>

RoIHeadsStep ==
  /\ pc = "roi_heads"
  /\ model' = [model EXCEPT
                 !.roi_heads = ReplaceRoIHeads(model, n_classes, n_authors, args)]
  /\ pc' = "rpn_thresholds"
  /\ UNCHANGED <<args, n_classes, n_authors, tuple_sizes_list,
                 tuple_aspect_ratios_list, outcome, exit_status, returned>>

RpnThresholdsStep ==
  /\ pc = "rpn_thresholds"
  /\ model' = [model EXCEPT !.rpn = SetRpnThresholds(model.rpn, args)]
  /\ pc' = "custom_anchors"
  /\ UNCHANGED <<args, n_classes, n_authors, tuple_sizes_list,
                 tuple_aspect_ratios_list, outcome, exit_status, returned>>

\* if args.custom_anchors: set_anchor(model, args)
CustomAnchorsTest ==
  /\ pc = "custom_anchors"
  /\ pc' = IF args.custom_anchors THEN "set_anchor" ELSE "fasterrcnn_return"
  /\ UNCHANGED <<args, n_classes, n_authors, model, tuple_sizes_list,
                 tuple_aspect_ratios_list, outcome, exit_status, returned>>

SetAnchorCollect ==
  /\ pc = "set_anchor"
  /\ tuple_sizes_list' = TupleSizes(args)
  /\ tuple_aspect_ratios_list' = TupleAspectRatios(args)
  /\ pc' = "check_sizes"
  /\ UNCHANGED <<args, n_classes, n_authors, model, outcome, exit_status,
                 returned>>

SetAnchorCheck ==
  /\ pc = "check_sizes"
  /\ IF WrongNumberOfSizes(tuple_sizes_list)
     THEN /\ pc' = "done"
          /\ outcome' = "exit"
          /\ exit_status' = <<1>>
     ELSE /\ pc' = "install_anchors"
          /\ outcome' = outcome
          /\ exit_status' = exit_status
  /\ UNCHANGED <<args, n_classes, n_authors, model, tuple_sizes_list,
                 tuple_aspect_ratios_list, returned>>

SetAnchorInstall ==
  /\ pc = "install_anchors"
  /\ model' = InstallAnchors(model, tuple_sizes_list, tuple_aspect_ratios_list)
  /\ pc' = "fasterrcnn_return"
  /\ UNCHANGED <<args, n_classes, n_authors, tuple_sizes_list,
                 tuple_aspect_ratios_list, outcome, exit_status, returned>>

\* the two prints and return model, back in create_model
FasterRCNNReturn ==
  /\ pc = "fasterrcnn_return"
  /\ pc' = "return"
  /\ UNCHANGED <<args, n_classes, n_authors, model, tuple_sizes_list,
                 tuple_aspect_ratios_list, outcome, exit_status, returned>>

BuildRetinaNet ==
  /\ pc = "create_model"
  /\ args.model = "retinanet"
  /\ model' = create_retinanet(n_classes, args)
  /\ pc' = "return"
  /\ UNCHANGED <<args, n_classes, n_authors, tuple_sizes_list,
                 tuple_aspect_ratios_list, outcome, exit_status, returned>>

BuildSSD ==
  /\ pc = "create_model"
  /\ args.model = "ssd"
  /\ model' = create_ssd300(n_classes, args)
  /\ pc' = "return"
  /\ UNCHANGED <<args, n_classes, n_authors, tuple_sizes_list,
                 tuple_aspect_ratios_list, outcome, exit_status, returned>>

\* no branch of the if/elif chain on args.model is taken
NoBranch ==
  /\ pc = "create_model"
  /\ args.model \notin {"fasterrcnn", "retinanet", "ssd"}
  /\ pc' = "return"
  /\ UNCHANGED <<args, n_classes, n_authors, model, tuple_sizes_list,
                 tuple_aspect_ratios_list, outcome, exit_status, returned>>

\* return model
Return ==
  /\ pc = "return"
  /\ pc' = "done"
  /\ IF model.kind = "unbound"
     THEN /\ outcome' = "UnboundLocalError"
          /\ returned' = returned
     ELSE /\ outcome' = "returned"
          /\ returned' = model
  /\ UNCHANGED <<args, n_classes, n_authors, model, tuple_sizes_list,
                 tuple_aspect_ratios_list, exit_status>>

Next ==
  \/ BuildFasterRCNN
  \/ CallCreateFasterRCNN
  \/ RoIHeadsStep
  \/ RpnThresholdsStep
  \/ CustomAnchorsTest
  \/ SetAnchorCollect
  \/ SetAnchorCheck
  \/ SetAnchorInstall
  \/ FasterRCNNReturn
  \/ BuildRetinaNet
  \/ BuildSSD
  \/ NoBranch
  \/ Return

Spec == Init /\ [][Next]_vars

(* ----------------------- vocabulary of the properties ----------------- *)

SizeMenu == {8, 16, 32, 64, 128, 256, 512}

RatioMenu == {5, 10, 20}

SizeFlag(a, s) ==
  CASE s = 8 -> a.size8 [] s = 16 -> a.size16 [] s = 32 -> a.size32
    [] s = 64 -> a.size64 [] s = 128 -> a.size128 [] s = 256 -> a.size256
    [] s = 512 -> a.size512

RatioFlag(a, r) ==
  CASE r = 5 -> a.ar05 [] r = 10 -> a.ar1 [] r = 20 -> a.ar2

SelectedSizes(a) == {s \in SizeMenu : SizeFlag(a, s)}

SelectedRatios(a) == {r \in RatioMenu : RatioFlag(a, r)}

IsModel(v) == v.kind \in {"FasterRCNN", "RetinaNet", "SSD"}

InEnumeration(a) ==
  \/ a.model = "fasterrcnn" /\ a.backbone \in {"resnet50", "resnet50v2", "mobilenet"}
  \/ a.model \in {"retinanet", "ssd"}

SizesAccepted(a) ==
  (a.model = "fasterrcnn" /\ a.custom_anchors)
    => Cardinality(SelectedSizes(a)) = 5

\* set_anchor was called in this run and came back to create_fasterrcnn
SetAnchorCompleted ==
  /\ args.custom_anchors
  /\ model.kind = "FasterRCNN"
  /\ pc \in {"fasterrcnn_return", "return", "done"}
  /\ outcome \in {"running", "returned"}

(* ------------------------------ properties ---------------------------- *)

\* C1: the model create_model returns has its classification head sized for
\* n_classes: the Faster R-CNN box predictor is built with n_classes, the
\* RetinaNet classification head has num_classes = n_classes and cls_logits
\* with num_anchors * n_classes output channels, and the SSD classification
\* head is rebuilt with n_classes over the library's per-layer in_channels and
\* anchors per location.
C1_HeadSizedForClasses ==
  outcome = "returned" =>
    /\ args.model = "fasterrcnn" =>
         /\ returned.kind = "FasterRCNN"
         /\ returned.roi_heads.box_predictor.num_classes = n_classes
    /\ args.model = "retinanet" =>
         /\ returned.kind = "RetinaNet"
         /\ LET ch == returned.head.classification_head
            IN /\ ch.num_classes = n_classes
               /\ ch.cls_logits.out_channels = ch.num_anchors * n_classes
    /\ args.model = "ssd" =>
         /\ returned.kind = "SSD"
         /\ LET ch == returned.head.classification_head
                old == LibSSD.head.classification_head.module_list
                anchors == DefaultBoxAnchors(LibSSD.anchor_generator)
            IN /\ ch.num_columns = n_classes
               /\ Len(ch.module_list) = Len(old)
               /\ \A i \in 1..Len(old) :
                    /\ ch.module_list[i].in_channels = old[i].in_channels
                    /\ ch.module_list[i].out_channels = anchors[i] * n_classes

C1_Witness ==
  /\ outcome = "returned"
  /\ returned.kind = "SSD"
  /\ n_classes = 1

C3_RpnThresholds ==
  (outcome = "returned" /\ returned.kind = "FasterRCNN") =>
    /\ returned.rpn.nms_thresh = args.rpn_nms_threshold
    /\ returned.rpn.score_thresh = args.rpn_score_threshold
    /\ returned.rpn.proposal_matcher.high_threshold = args.rpn_fg_iou_threshold
    /\ returned.rpn.proposal_matcher.low_threshold = args.rpn_bg_iou_threshold

\* C4: when set_anchor completes, exactly five size flags are set and the new
\* anchor generator has five levels, level i holding the single i-th smallest
\* selected size, every level with the selected aspect ratios in ascending
\* order.
C4_AnchorLevels ==
  SetAnchorCompleted =>
    LET ag == model.rpn.anchor_generator
        sel == SelectedSizes(args)
        rat == SelectedRatios(args)
    IN /\ Cardinality(sel) = 5
       /\ Len(ag.sizes) = 5
       /\ Len(ag.aspect_ratios) = 5
       /\ \A i \in 1..5 :
            /\ Len(ag.sizes[i]) = 1
            /\ ag.sizes[i][1] \in sel
            /\ Cardinality({t \in sel : t < ag.sizes[i][1]}) = i - 1
            /\ LET r == ag.aspect_ratios[i]
               IN /\ Len(r) = Cardinality(rat)
                  /\ {r[j] : j \in 1..Len(r)} = rat
                  /\ \A j, k \in 1..Len(r) : j < k => r[j] < r[k]

C4_Witness ==
  /\ SetAnchorCompleted
  /\ outcome = "returned"
  /\ SelectedSizes(args) = {8, 16, 64, 128, 512}
  /\ SelectedRatios(args) = {5, 20}
  /\ returned.rpn.anchor_generator.sizes[3] = <<64>>

\* C5: the returned model has the author branch (CustomRoIHeads with a
\* FastRCNNPredictorWithAuthor built from n_classes and n_authors) exactly
\* when args.model is fasterrcnn and args.add_authors is set; otherwise the
\* returned model is the same for every n_authors.
C5_AuthorBranch ==
  outcome = "returned" =>
    IF args.model = "fasterrcnn" /\ args.add_authors
    THEN /\ returned.kind = "FasterRCNN"
         /\ returned.roi_heads.type = "CustomRoIHeads"
         /\ returned.roi_heads.box_predictor =
              FastRCNNPredictorWithAuthor(
                LibFasterRCNN(args.backbone).roi_heads.box_predictor.in_features,
                n_classes, n_authors)
    ELSE CASE returned.kind = "FasterRCNN" ->
                /\ returned.roi_heads.type = "RoIHeads"
                /\ returned.roi_heads.box_predictor.type = "FastRCNNPredictor"
                /\ "num_authors" \notin DOMAIN returned.roi_heads.box_predictor
                /\ \A u \in 1..MaxAuthors :
                     returned.roi_heads =
                       ReplaceRoIHeads(LibFasterRCNN(args.backbone),
                                       n_classes, u, args)
           [] returned.kind = "RetinaNet" ->
                /\ "roi_heads" \notin DOMAIN returned
                /\ returned = create_retinanet(n_classes, args)
           [] returned.kind = "SSD" ->
                /\ "roi_heads" \notin DOMAIN returned
                /\ returned = create_ssd300(n_classes, args)

C5_Witness ==
  /\ outcome = "returned"
  /\ args.model = "fasterrcnn"
  /\ args.add_authors
  /\ n_classes = 1
  /\ n_authors = 2
  /\ returned.roi_heads.box_predictor.num_authors = 2

\* C6 as stated: create_model returns a model exactly when the configuration
\* names an entry of the enumeration, and otherwise ends in an error without
\* returning a model or None.
C6_ReturnsIffEnumerated ==
  pc = "done" =>
    /\ (outcome = "returned" /\ IsModel(returned)) <=> InEnumeration(args)
    /\ ~InEnumeration(args) =>
         /\ outcome = "UnboundLocalError"
         /\ returned = Nothing

\* C6 amended: create_model returns a model exactly when the configuration
\* names an entry of the enumeration and, for fasterrcnn with custom_anchors,
\* exactly five size flags are set.  Outside the enumeration it ends in an
\* UnboundLocalError, with a wrong number of sizes in exit status 1, and in
\* neither case is a model or None returned.
C6_ReturnsIffEnumeratedAndSized ==
  /\ returned.kind # "None"
  /\ pc # "done" => (outcome = "running" /\ returned = Nothing)
  /\ pc = "done" =>
       /\ (outcome = "returned" /\ IsModel(returned))
            <=> (InEnumeration(args) /\ SizesAccepted(args))
       /\ ~InEnumeration(args) =>
            /\ outcome = "UnboundLocalError"
            /\ returned = Nothing
       /\ (InEnumeration(args) /\ ~SizesAccepted(args)) =>
            /\ outcome = "exit"
            /\ exit_status = <<1>>
            /\ returned = Nothing

C6_Witness ==
  /\ pc = "done"
  /\ args.model = "fasterrcnn"
  /\ args.backbone = "vgg16"
  /\ outcome = "UnboundLocalError"

\* C7: if the number of size flags set is not five, set_anchor ends the
\* process with exit status 1, the model's rpn.anchor_generator and rpn.head
\* are still the ones the library built, and no model is returned.
C7_WrongSizeCountExits ==
  (model.kind = "FasterRCNN" /\ args.custom_anchors
     /\ Cardinality(SelectedSizes(args)) # 5) =>
    /\ model.rpn.anchor_generator =
         LibFasterRCNN(args.backbone).rpn.anchor_generator
    /\ model.rpn.head = LibFasterRCNN(args.backbone).rpn.head
    /\ returned = Nothing
    /\ pc \notin {"install_anchors", "fasterrcnn_return", "return"}
    /\ pc = "done" => (outcome = "exit" /\ exit_status = <<1>>)
    /\ pc # "done" => ENABLED Next

C7_Witness ==
  /\ pc = "done"
  /\ outcome = "exit"
  /\ exit_status = <<1>>
  /\ Cardinality(SelectedSizes(args)) = 6

\* C8: after set_anchor completes, the RPN head is built for as many anchors
\* per location as every one of the five levels of the new generator has,
\* which is the number of aspect-ratio flags set.
C8_HeadMatchesGenerator ==
  SetAnchorCompleted =>
    LET per == num_anchors_per_location(model.rpn.anchor_generator)
    IN /\ Len(per) = 5
       /\ \A i \in 1..Len(per) :
            /\ per[i] = model.rpn.head.num_anchors
            /\ per[i] = Cardinality(SelectedRatios(args))

C8_Witness ==
  /\ SetAnchorCompleted
  /\ Cardinality(SelectedRatios(args)) = 2
  /\ model.rpn.head.num_anchors = 2

\* C9: whenever set_anchor completes, the installed anchor generator and RPN
\* head have at least one anchor per location on every level.
C9_AtLeastOneAnchor ==
  SetAnchorCompleted =>
    LET per == num_anchors_per_location(model.rpn.anchor_generator)
    IN /\ model.rpn.head.num_anchors >= 1
       /\ \A i \in 1..Len(per) : per[i] >= 1

\* C10: for retinanet and ssd the returned model differs from the model the
\* library built in its classification head alone: thresholds, anchor
\* generator and box-regression head are the library's, whatever the
\* threshold fields, the anchor flags, add_authors and n_authors are.
C10_OnlyClassificationHead ==
  (outcome = "returned" /\ args.model \in {"retinanet", "ssd"}) =>
    LET lib == IF args.model = "retinanet" THEN LibRetinaNet ELSE LibSSD
    IN /\ returned.kind = lib.kind
       /\ returned.score_thresh = lib.score_thresh
       /\ returned.nms_thresh = lib.nms_thresh
       /\ returned.detections_per_img = lib.detections_per_img
       /\ returned.proposal_matcher = lib.proposal_matcher
       /\ returned.anchor_generator = lib.anchor_generator
       /\ returned.head.regression_head = lib.head.regression_head
       /\ [returned EXCEPT !.head.classification_head =
                             lib.head.classification_head] = lib

C10_Witness ==
  /\ outcome = "returned"
  /\ returned.kind = "RetinaNet"
  /\ args.custom_anchors
  /\ args.add_authors
  /\ args.box_score_threshold = 70
  /\ args.box_nms_threshold = 30
  /\ returned.score_thresh = 5

====
